---- MODULE Spec2Model ----
(***************************************************************************)
(* Model of CDMam_wadwrapper.py: the WAD-QC wrapper around CDMam_lib.      *)
(* The wrapper's own control flow (parameter checks, scorer selection,     *)
(* result emission, the main dispatch loop, the multi-image routine) is    *)
(* translated statement by statement.  Calls into wad_qc, pydicom and      *)
(* CDMam_lib are external: each either raises or returns a value chosen    *)
(* from a small set.                                                        *)
(*                                                                         *)
(* Python strings that the wrapper inspects or builds are sequences of     *)
(* one-character strings, so that str(), lower(), split(), the `in' test   *)
(* and the concatenations are computed and not assumed.                    *)
(***************************************************************************)
EXTENDS Integers, Sequences, FiniteSets

VARIABLES
    entry,      \* "main": the script is run; "list": cdmamqc_list is called
    actions,    \* key order of config['actions']
    data,       \* the series: file list and what the DICOM headers hold
    pc,         \* "dispatch" | "done" | "failed" | "call" | "returned"
    idx,        \* position of the main loop in actions
    handler,    \* name of the last function of the wrapper that ran
    params,     \* the params mapping that function was given
    setup,      \* what its cdmamsetup_series call computed
    cs,         \* the fields of its CDMamStruct the wrapper reads
    results,    \* values added to the results object, in order
    written,    \* one snapshot of results per results.write()
    err,        \* the uncaught exception, NoErr if none
    calls,      \* log of the external calls made, in order
    readkeys,   \* keys of params the wrapper looked up, per function
    finalscore, \* cdmamqc_list: the matrix it has built when it returns
    scored      \* cdmamqc_list: number of images scored when it returns

vars == <<entry, actions, data, pc, idx, handler, params, setup, cs, results,
          written, err, calls, readkeys, finalscore, scored>>

----------------------------------------------------------------------------
(* Bounds *)

MaxDiam == 2      \* longest diam_mm / limit_um list returned by the library
MaxImages == 2    \* longest file list handed to cdmamqc_list
Rows == 1         \* shape of the phantom ground truth (score matrix rows)
Cols == 2         \* shape of the phantom ground truth (score matrix columns)

----------------------------------------------------------------------------
(* Python values and strings *)

Min(a, b) == IF a < b THEN a ELSE b

\* a Python value: bool, int, str, list or None
PyBool(b) == [t |-> "bool", b |-> b, n |-> 0, s |-> << >>]
PyInt(n) == [t |-> "int", b |-> FALSE, n |-> n, s |-> << >>]
PyStr(s) == [t |-> "str", b |-> FALSE, n |-> 0, s |-> s]
PyList(s) == [t |-> "list", b |-> FALSE, n |-> 0, s |-> s]
PyNone == [t |-> "none", b |-> FALSE, n |-> 0, s |-> << >>]

UpperCase == <<"A","B","C","D","E","F","G","H","I","J","K","L","M",
               "N","O","P","Q","R","S","T","U","V","W","X","Y","Z">>
LowerCase == <<"a","b","c","d","e","f","g","h","i","j","k","l","m",
               "n","o","p","q","r","s","t","u","v","w","x","y","z">>
Digit == <<"0","1","2","3","4","5","6","7","8","9">>

\* str.lower() on one character
LowerChar(c) ==
    IF \E i \in 1..26 : UpperCase[i] = c
    THEN LowerCase[CHOOSE i \in 1..26 : UpperCase[i] = c]
    ELSE c

\* str.lower()
py_lower(s) == [i \in 1..Len(s) |-> LowerChar(s[i])]

\* decimal digits of a natural number
RECURSIVE Digits(_)
Digits(n) == IF n < 10 THEN <<Digit[n + 1]>>
             ELSE Digits(n \div 10) \o <<Digit[(n % 10) + 1]>>

\* str(v)
py_str(v) ==
    CASE v.t = "bool" -> IF v.b THEN <<"T","r","u","e">> ELSE <<"F","a","l","s","e">>
      [] v.t = "int" -> Digits(v.n)
      [] v.t = "str" -> v.s
      [] v.t = "none" -> <<"N","o","n","e">>
      [] OTHER -> <<"[">> \o v.s \o <<"]">>

\* sub in s
Contains(sub, s) ==
    \E i \in 0..(Len(s) - Len(sub)) : SubSeq(s, i + 1, i + Len(sub)) = sub

\* s.split(sep) for a one-character separator
RECURSIVE py_split(_, _, _)
py_split(s, sep, cur) ==
    IF s = << >> THEN <<cur>>
    ELSE IF Head(s) = sep THEN <<cur>> \o py_split(Tail(s), sep, << >>)
    ELSE py_split(Tail(s), sep, Append(cur, Head(s)))

\* s.zfill(width)
RECURSIVE py_zfill(_, _)
py_zfill(s, width) == IF Len(s) >= width THEN s ELSE py_zfill(<<"0">> \o s, width)

\* '%0.2f' % di, for a diameter held in hundredths of a millimetre
Format2f(di) ==
    Digits(di \div 100) \o <<".">> \o <<Digit[((di % 100) \div 10) + 1]>>
                        \o <<Digit[(di % 10) + 1]>>

----------------------------------------------------------------------------
(* Errors *)

NoErr == [type |-> "", msg |-> ""]
Exc(type, msg) == [type |-> type, msg |-> msg]

logTag == "[CDMam_wadwrapper] "

----------------------------------------------------------------------------
(* The params mapping and the external library *)

ParamKeys == {"phantomversion", "modeCDCOM", "parsCDCOM"}

EmptyDict == [k \in {} |-> PyNone]

\* params[key]: the value, or the exception the lookup raises
Subscript(p, key) == IF key \in DOMAIN p THEN NoErr ELSE Exc("KeyError", key)

\* try: ... except <type>: raise <replacement>
ExceptRaise(exc, type, replacement) == IF exc.type = type THEN replacement ELSE exc

\* env.failAt: the external call that raises in this run, "none" if all return
LibRaises(env, fn) == env.failAt = fn

LibError(fn) == Exc("LibraryError", fn)

NoMatrix == << >>

\* one external call: who made it, the matrix it was given and the matrix it
\* returned (NoMatrix when there is none)
Call(by, fn, arg, ret) == [by |-> by, fn |-> fn, arg |-> arg, ret |-> ret]

----------------------------------------------------------------------------
(* cdmamsetup_series *)

SetupResult(e, keys, fns, pv, mode, pars, built) ==
    [err |-> e, readkeys |-> keys, fns |-> fns, phantomversion |-> pv,
     modeCDCOM |-> mode, parsCDCOM |-> pars, built |-> built]

NoSetup == SetupResult(NoErr, {}, << >>, PyNone, FALSE, << >>, FALSE)

\* lines 88-99: prepareInput, CDMam(), CDMamStruct, determineScannerID
BuildStruct(keys, pv, mode, pars, env) ==
    IF LibRaises(env, "prepareInput")
    THEN SetupResult(LibError("prepareInput"), keys, <<"prepareInput">>,
                     pv, mode, pars, FALSE)
    ELSE IF LibRaises(env, "CDMamStruct")
    THEN SetupResult(LibError("CDMamStruct"), keys,
                     <<"prepareInput", "CDMam", "CDMamStruct">>, pv, mode, pars, FALSE)
    ELSE IF LibRaises(env, "determineScannerID")
    THEN SetupResult(LibError("determineScannerID"), keys,
                     <<"prepareInput", "CDMam", "CDMamStruct", "determineScannerID">>,
                     pv, mode, pars, TRUE)
    ELSE SetupResult(NoErr, keys,
                     <<"prepareInput", "CDMam", "CDMamStruct", "determineScannerID">>,
                     pv, mode, pars, TRUE)

\* the comparison without the lower-casing
ModeCDCOMCaseSensitive(v) == py_str(v) = <<"t","r","u","e">>

\* line 75: str(params["modeCDCOM"]).lower() == 'true'
ModeCDCOM(v) == py_lower(py_str(v)) = <<"t","r","u","e">>

\* lines 68-82: the parameter check of the non-header mode
CheckedParams(p, env) ==
    LET e1 == ExceptRaise(Subscript(p, "phantomversion"), "AttributeError",
                          Exc("ValueError", "missing phantomversion parameter!"))
        e2 == ExceptRaise(Subscript(p, "modeCDCOM"), "AttributeError",
                          Exc("ValueError", "missing cdcommode parameter!"))
        pars == IF "parsCDCOM" \in DOMAIN p THEN p["parsCDCOM"] ELSE PyStr(<< >>)
        e3 == ExceptRaise(IF pars.t = "str" THEN NoErr ELSE Exc("AttributeError", "split"),
                          "AttributeError",
                          Exc("ValueError", "malformed parsCDCOM parameter!"))
    IN  IF e1 # NoErr
        THEN SetupResult(e1, {"phantomversion"}, << >>, PyNone, FALSE, << >>, FALSE)
        ELSE IF e2 # NoErr
        THEN SetupResult(e2, {"phantomversion", "modeCDCOM"}, << >>,
                         p["phantomversion"], FALSE, << >>, FALSE)
        ELSE IF e3 # NoErr
        THEN SetupResult(e3, ParamKeys, << >>, p["phantomversion"],
                         ModeCDCOM(p["modeCDCOM"]),
                         << >>, FALSE)
        ELSE BuildStruct(ParamKeys, p["phantomversion"],
                         ModeCDCOM(p["modeCDCOM"]),
                         py_split(pars.s, ";", << >>), env)

\* the parameter check done in the header-only mode too
cdmamsetup_seriesAlwaysChecks(p, headers_only, env) == CheckedParams(p, env)

cdmamsetup_series(p, headers_only, env) ==
    IF ~headers_only
    THEN CheckedParams(p, env)
    ELSE BuildStruct({}, PyStr(<<"3", ".", "2">>), FALSE, << >>, env)

----------------------------------------------------------------------------
(* identifyName *)

\* the energy tags tested with independent ifs: several can be appended
identifyNameSeveralTags(c) ==
    LET tag == IF Contains(<<"R","H","O">>, c.filtername) THEN <<"_","R","H">>
               ELSE IF Contains(<<"M","O","L">>, c.filtername) THEN <<"_","M","O">>
               ELSE IF Contains(<<"A","L","U">>, c.filtername) THEN <<"_","A","L">>
               ELSE IF Contains(<<"S","I","L","V">>, c.filtername) THEN <<"_","A","G">>
               ELSE <<"_","X","X">>
        su == IF Contains(<<"S","U","M">>, c.energypresentation) THEN <<"s","u">> ELSE << >>
        hi == IF Contains(<<"H","I","G","H">>, c.energypresentation) THEN <<"h","i">> ELSE << >>
        lo == IF Contains(<<"L","O","W">>, c.energypresentation) THEN <<"l","o">> ELSE << >>
        proc == IF Contains(<<"P","R","O","C">>, c.energypresentation) THEN <<"p","r","o","c">>
                ELSE IF Contains(<<"P","R","E","S">>, c.energypresentation) THEN <<"p","r","e","s">>
                ELSE << >>
    IN  tag \o su \o hi \o lo \o proc

identifyName(c) ==
    LET tag == IF Contains(<<"R","H","O">>, c.filtername) THEN <<"_","R","H">>
               ELSE IF Contains(<<"M","O","L">>, c.filtername) THEN <<"_","M","O">>
               ELSE IF Contains(<<"A","L","U">>, c.filtername) THEN <<"_","A","L">>
               ELSE IF Contains(<<"S","I","L","V">>, c.filtername) THEN <<"_","A","G">>
               ELSE <<"_","X","X">>
        energy == IF Contains(<<"S","U","M">>, c.energypresentation) THEN <<"s","u">>
                  ELSE IF Contains(<<"H","I","G","H">>, c.energypresentation) THEN <<"h","i">>
                  ELSE IF Contains(<<"L","O","W">>, c.energypresentation) THEN <<"l","o">>
                  ELSE << >>
        proc == IF Contains(<<"P","R","O","C">>, c.energypresentation) THEN <<"p","r","o","c">>
                ELSE IF Contains(<<"P","R","E","S">>, c.energypresentation) THEN <<"p","r","e","s">>
                ELSE << >>
    IN  tag \o energy \o proc

----------------------------------------------------------------------------
(* What the external library can return *)

ZeroMatrix == [y \in 1..Rows |-> [x \in 1..Cols |-> 0]]
OnesMatrix == [y \in 1..Rows |-> [x \in 1..Cols |-> 1]]
UnitMatrix == [y \in 1..Rows |-> [x \in 1..Cols |-> IF y = 1 /\ x = 1 THEN 1 ELSE 0]]

\* score matrices a scorer returns: the shape of the phantom ground truth,
\* one detection decision (0 or 1) per cell
Scores == {ZeroMatrix, OnesMatrix, UnitMatrix}

\* sample values of cs.diam_mm (hundredths of a millimetre, increasing) and of
\* cs.limit_um (micrometres): runs of the lists below
DiamSamples == <<6, 8, 10, 13, 100, 125, 160, 200>>
LimitSamples == <<20, 9, 5, 2, 1>>
IqfValues == {3}

SeqsUpTo(S, n) == UNION {[1..k -> S] : k \in 0..n}

DiamLists == {SubSeq(DiamSamples, a, a + k - 1) : a \in {1, 5}, k \in 0..MaxDiam}
LimitLists == {SubSeq(LimitSamples, 1, k) : k \in 0..MaxDiam}

Env(failAt, score, diam, limit, iqf) ==
    [failAt |-> failAt, score |-> score, diam_mm |-> diam, limit_um |-> limit,
     iqf |-> iqf]

FailEnv(fn) == Env(fn, ZeroMatrix, << >>, << >>, 0)

QcEnvs ==
    {FailEnv(fn) : fn \in {"prepareInput", "CDMamStruct", "determineScannerID",
                           "CDMamSingle", "CDCOMSingle", "thresholdThickness"}}
    \cup {Env("none", sc, d, l, q) : sc \in {ZeroMatrix, UnitMatrix}, d \in DiamLists,
                                      l \in LimitLists, q \in IqfValues}

HeaderEnvs ==
    {FailEnv(fn) : fn \in {"none", "prepareInput", "CDMamStruct",
                           "determineScannerID", "DICOMInfo"}}

AcqEnvs == {FailEnv(fn) : fn \in {"none", "read_file", "acqdatetime_series"}}

\* the artefact files thresholdThickness leaves in cs
threshold_fnames == << <<"t","h","r",".","j","p","g">> >>
fit_fnames == << <<"f","i","t",".","j","p","g">> >>

\* what DICOMInfo(cs,'qc') returns: (name, value) pairs
dicominfo == << [name |-> <<"k","V","p">>, value |-> PyInt(28)] >>

qcversion == PyInt(20170825)

\* os.path.splitext(fn)[0] for a file name without directories
RECURSIVE LastDot(_, _)
LastDot(s, i) == IF i = 0 THEN 0 ELSE IF s[i] = "." THEN i ELSE LastDot(s, i - 1)

splitext0(fn) ==
    LET i == LastDot(fn, Len(fn))
    IN  IF i <= 1 THEN fn ELSE SubSeq(fn, 1, i - 1)

----------------------------------------------------------------------------
(* The handlers *)

Result(by, kind, name, val, sval) ==
    [by |-> by, kind |-> kind, name |-> name, val |-> val, sval |-> sval]

HandlerResult(e, st, p, c, cl, rs) ==
    [err |-> e, setup |-> st, params |-> p, cs |-> c, calls |-> cl, results |-> rs]

\* the CDMamStruct: determineScannerID fills in the header fields,
\* thresholdThickness the thresholds and the image quality factor
Struct(filtername, energy, diam, limit, iqf) ==
    [filtername |-> filtername, energypresentation |-> energy, diam_mm |-> diam,
     limit_um |-> limit, iqf |-> iqf]

NoStruct == Struct(<< >>, << >>, << >>, << >>, 0)

StructOf(d) == Struct(d.filtername, d.energypresentation, << >>, << >>, 0)

AfterThreshold(c, env) ==
    [c EXCEPT !.diam_mm = env.diam_mm, !.limit_um = env.limit_um, !.iqf = env.iqf]

\* try: params = action['params'] except KeyError: params = {}
ActionParams(action) == IF action.hasParams THEN action.params ELSE EmptyDict

SetupCalls(by, st) == [i \in 1..Len(st.fns) |-> Call(by, st.fns[i], NoMatrix, NoMatrix)]

limit_um_ == <<"l","i","m","i","t","_","u","m","_">>

\* lines 204-217: the values qc_series adds to results
QcEmitted(c) ==
    LET idname == identifyName(c)
        n == Min(Len(c.diam_mm), Len(c.limit_um))
    IN  [i \in 1..n |->
            Result("qc_series", "float",
                   limit_um_ \o py_zfill(Format2f(c.diam_mm[i]), 4) \o idname,
                   c.limit_um[i], << >>)]
        \o << Result("qc_series", "float", <<"i","q","f">> \o idname, c.iqf, << >>) >>
        \o [i \in 1..Len(threshold_fnames) |->
               Result("qc_series", "object", splitext0(threshold_fnames[i]), 0,
                      threshold_fnames[i])]
        \o [i \in 1..Len(fit_fnames) |->
               Result("qc_series", "object", splitext0(fit_fnames[i]), 0, fit_fnames[i])]

AddCall(by, r) ==
    Call(by, CASE r.kind = "float" -> "addFloat"
               [] r.kind = "object" -> "addObject"
               [] r.kind = "string" -> "addString"
               [] OTHER -> "addDateTime", NoMatrix, NoMatrix)

AddCalls(by, rs) == [i \in 1..Len(rs) |-> AddCall(by, rs[i])]

\* lines 189-192: the scorer the mode selects
SelectScorer(modeCDCOM) == IF ~modeCDCOM THEN "CDMamSingle" ELSE "CDCOMSingle"

qc_series(d, action, env) ==
    LET p == ActionParams(action)
        st == cdmamsetup_series(p, FALSE, env)
        c0 == IF st.built THEN StructOf(d) ELSE NoStruct
        c1 == SetupCalls("qc_series", st)
        scorer == SelectScorer(st.modeCDCOM)
        score == env.score
        c2 == Append(c1, Call("qc_series", scorer, NoMatrix,
                              IF LibRaises(env, scorer) THEN NoMatrix ELSE score))
        c3 == Append(c2, Call("qc_series", "thresholdThickness", score, NoMatrix))
        c4 == AfterThreshold(c0, env)
        rs == QcEmitted(c4)
    IN  IF st.err # NoErr THEN HandlerResult(st.err, st, p, c0, c1, << >>)
        ELSE IF LibRaises(env, scorer)
        THEN HandlerResult(LibError(scorer), st, p, c0, c2, << >>)
        ELSE IF LibRaises(env, "thresholdThickness")
        THEN HandlerResult(LibError("thresholdThickness"), st, p, c0, c3, << >>)
        ELSE HandlerResult(NoErr, st, p, c4, c3 \o AddCalls("qc_series", rs), rs)

acqdatetime_series(d, action, env) ==
    LET p == ActionParams(action)
        c1 == << Call("acqdatetime", "read_file", NoMatrix, NoMatrix) >>
        c2 == Append(c1, Call("acqdatetime", "acqdatetime_series", NoMatrix, NoMatrix))
        rs == << Result("acqdatetime", "datetime",
                        <<"A","c","q","u","i","s","i","t","i","o","n",
                          "D","a","t","e","T","i","m","e">>, 0, << >>) >>
    IN  IF d.filelist = << >>
        THEN HandlerResult(Exc("IndexError", "series_filelist[0][0]"), NoSetup, p,
                           NoStruct, << >>, << >>)
        ELSE IF LibRaises(env, "read_file")
        THEN HandlerResult(LibError("read_file"), NoSetup, p, NoStruct, c1, << >>)
        ELSE IF LibRaises(env, "acqdatetime_series")
        THEN HandlerResult(LibError("acqdatetime_series"), NoSetup, p, NoStruct, c2, << >>)
        ELSE HandlerResult(NoErr, NoSetup, p, NoStruct,
                           c2 \o AddCalls("acqdatetime", rs), rs)

\* str(v)[:min(len(str(v)),100)]
Truncate100(s) == SubSeq(s, 1, Min(Len(s), 100))

header_series(d, action, env) ==
    LET p == ActionParams(action)
        st == cdmamsetup_series(p, TRUE, env)
        c0 == IF st.built THEN StructOf(d) ELSE NoStruct
        c1 == SetupCalls("header_series", st)
        c2 == Append(c1, Call("header_series", "DICOMInfo", NoMatrix, NoMatrix))
        idname == identifyName(c0)
        rs == << Result("header_series", "string",
                        <<"p","l","u","g","i","n","v","e","r","s","i","o","n">> \o idname,
                        0, py_str(qcversion)) >>
              \o [i \in 1..Len(dicominfo) |->
                     Result("header_series", "string", dicominfo[i].name \o idname, 0,
                            Truncate100(py_str(dicominfo[i].value)))]
    IN  IF st.err # NoErr THEN HandlerResult(st.err, st, p, c0, c1, << >>)
        ELSE IF LibRaises(env, "DICOMInfo")
        THEN HandlerResult(LibError("DICOMInfo"), st, p, c0, c2, << >>)
        ELSE HandlerResult(NoErr, st, p, c0, c2 \o AddCalls("header_series", rs), rs)

----------------------------------------------------------------------------
(* cdmamqc_list *)

\* names bound at module level when a function of the wrapper runs
ModuleGlobals ==
    {"os", "pyWADinput", "wadwrapper_lib", "np", "matplotlib", "CDMam_lib", "dicom",
     "logTag", "cdmamsetup_series", "identifyName", "cdmamqc_list", "qc_series",
     "acqdatetime_series", "header_series"}

\* names assigned somewhere in the body of cdmamqc_list, hence local to it
ListLocals ==
    {"data", "results", "params", "finalscore", "imnum", "fname", "inputfile",
     "qclib", "cs", "modeCDCOM", "score", "y", "x"}

\* reading a name inside cdmamqc_list when the locals in bound have a value
Resolve(name, bound) ==
    IF name \in ListLocals
    THEN IF name \in bound THEN NoErr ELSE Exc("UnboundLocalError", name)
    ELSE IF name \in ModuleGlobals THEN NoErr ELSE Exc("NameError", name)

ListResult(e, cl, fs, n) == [err |-> e, calls |-> cl, finalscore |-> fs, scored |-> n]

ImageEnv(img) == Env(img.failAt, img.score, << >>, << >>, 0)

\* lines 136-149: the loop over data.series_filelist[0]
RECURSIVE ScoreImages(_, _, _, _, _)
ScoreImages(files, p, imnum, running, cl) ==
    IF imnum > Len(files) THEN ListResult(NoErr, cl, running, imnum - 1)
    ELSE LET env == ImageEnv(files[imnum])
             st == cdmamsetup_series(p, FALSE, env)
             c1 == cl \o SetupCalls("cdmamqc_list", st)
             scorer == SelectScorer(st.modeCDCOM)
             c2 == Append(c1, Call("cdmamqc_list", scorer, NoMatrix,
                                   IF LibRaises(env, scorer) THEN NoMatrix ELSE env.score))
         IN  IF st.err # NoErr THEN ListResult(st.err, c1, running, imnum - 1)
             ELSE IF LibRaises(env, scorer)
             THEN ListResult(LibError(scorer), c2, running, imnum - 1)
             ELSE ScoreImages(files, p, imnum + 1,
                              [y \in 1..Rows |-> [x \in 1..Cols |->
                                   running[y][x] + env.score[y][x]]], c2)

\* a quotient num/den
Quot(num, den) == [num |-> num, den |-> den]

\* lines 152-156: the average and the call of thresholdThickness
Average(loop, nimages, bound) ==
    LET e1 == Resolve("imagelist", bound)
        avg == [y \in 1..Rows |-> [x \in 1..Cols |->
                   Quot(loop.finalscore[y][x], nimages)]]
        e2 == Resolve("qclib", bound)
    IN  IF e1 # NoErr THEN ListResult(e1, loop.calls, loop.finalscore, loop.scored)
        ELSE IF nimages = 0
        THEN ListResult(Exc("ZeroDivisionError", "division by zero"), loop.calls,
                        loop.finalscore, loop.scored)
        ELSE IF e2 # NoErr THEN ListResult(e2, loop.calls, avg, loop.scored)
        ELSE ListResult(NoErr,
                        Append(loop.calls,
                               Call("cdmamqc_list", "thresholdThickness", avg, NoMatrix)),
                        avg, loop.scored)

cdmamqc_list(d, p) ==
    LET bound0 == {"data", "results", "params"}
        e133 == Resolve("cs", bound0)
        loop == ScoreImages(d.filelist, p, 1, ZeroMatrix, << >>)
        bound1 == bound0 \cup {"finalscore", "imnum"}
                  \cup (IF d.filelist = << >> THEN {}
                        ELSE {"fname", "inputfile", "qclib", "cs", "modeCDCOM"})
    IN  IF e133 # NoErr THEN ListResult(e133, << >>, NoMatrix, 0)
        ELSE IF loop.err # NoErr THEN loop
        ELSE Average(loop, Len(d.filelist), bound1)

----------------------------------------------------------------------------
(* Configurations and series *)

Str32 == <<"3", ".", "2">>

ModeValues == {PyBool(TRUE), PyBool(FALSE), PyStr(<<"T","R","U","E">>),
               PyStr(<<"y","e","s">>), PyInt(1)}

FullParams(mode) ==
    [k \in ParamKeys |->
        CASE k = "phantomversion" -> PyStr(Str32)
          [] k = "modeCDCOM" -> mode
          [] OTHER -> PyStr(<<"c",";","h","i","g","h">>)]

Without(p, key) == [k \in (DOMAIN p) \ {key} |-> p[k]]

\* params mappings: complete ones, ones lacking a key, one with a parsCDCOM
\* that is no string, and the empty one
ParamsSet ==
    {FullParams(m) : m \in ModeValues}
    \cup {Without(FullParams(PyBool(TRUE)), k) : k \in ParamKeys}
    \cup {[FullParams(PyBool(FALSE)) EXCEPT !["parsCDCOM"] = PyList(<<"c">>)]}
    \cup {EmptyDict}

NoParamsAction == [hasParams |-> FALSE, params |-> EmptyDict]
WithParams(p) == [hasParams |-> TRUE, params |-> p]

\* an action of the configuration, with or without a 'params' entry
QcActions == {NoParamsAction} \cup {WithParams(p) : p \in ParamsSet}

HeaderActions ==
    {NoParamsAction, WithParams(EmptyDict),
     WithParams([k \in {"parsCDCOM"} |-> PyList(<<"c">>)])}

AcqActions == {NoParamsAction, WithParams(FullParams(PyBool(TRUE)))}

ActionNames == {"acqdatetime", "header_series", "qc_series", "other"}

\* the keys of config['actions'] in iteration order: distinct names
ActionOrders ==
    {o \in SeqsUpTo(ActionNames, Cardinality(ActionNames)) :
        \A i, j \in 1..Len(o) : i # j => o[i] # o[j]}

\* what determineScannerID leaves in cs.filtername and cs.energypresentation
SeriesHeaders ==
    {[filtername |-> <<"R","H","O","D","I","U","M">>, energypresentation |-> << >>],
     [filtername |-> <<"S","I","L","V","E","R">>,
      energypresentation |-> <<"S","U","M","P","R","E","S">>],
     [filtername |-> <<"T","U","N","G","S","T","E","N">>,
      energypresentation |-> <<"L","O","W","H","I","G","H","P","R","O","C">>],
     [filtername |-> <<"M","O","L","Y","B","D","E","N","U","M">>,
      energypresentation |-> <<"P","R","E","S","E","N","T","A","T","I","O","N">>],
     [filtername |-> <<"A","L","U","M","I","N","U","M">>,
      energypresentation |-> <<"L","O","W">>]}

Image(score, failAt) == [score |-> score, failAt |-> failAt]

Images == {Image(sc, f) : sc \in Scores,
                          f \in {"none", "prepareInput", "CDMamSingle", "CDCOMSingle"}}

Series(files, filtername, energy) ==
    [filelist |-> files, filtername |-> filtername, energypresentation |-> energy]

ListParams ==
    {EmptyDict, FullParams(PyBool(TRUE)), FullParams(PyBool(FALSE))}

----------------------------------------------------------------------------
(* The state machine *)

\* the script after pyWADinput() has returned data, results and config, for a
\* series of one file
InitMain ==
    /\ entry = "main"
    /\ actions \in ActionOrders
    /\ data \in {Series(<<Image(ZeroMatrix, "none")>>, h.filtername,
                           h.energypresentation) : h \in SeriesHeaders}
    /\ pc = "dispatch"
    /\ params = EmptyDict

\* a caller about to call cdmamqc_list(data, results, params)
InitList ==
    /\ entry = "list"
    /\ actions = << >>
    /\ data \in {Series(files, <<"T","U","N","G","S","T","E","N">>, << >>) :
                    files \in SeqsUpTo(Images, MaxImages)}
    /\ pc = "call"
    /\ params \in ListParams

Init ==
    /\ InitMain \/ InitList
    /\ idx = 1
    /\ handler = ""
    /\ setup = NoSetup
    /\ cs = NoStruct
    /\ results = << >>
    /\ written = << >>
    /\ err = NoErr
    /\ calls = << >>
    /\ readkeys = {}
    /\ finalscore = NoMatrix
    /\ scored = 0

\* the loop going on to the next action after a handler has raised
ApplyAndContinue(name, r) ==
    /\ handler' = name
    /\ params' = r.params
    /\ setup' = r.setup
    /\ cs' = r.cs
    /\ results' = results \o r.results
    /\ calls' = calls \o r.calls
    /\ readkeys' = readkeys \cup {[by |-> name, key |-> k] : k \in r.setup.readkeys}
    /\ err' = r.err
    /\ pc' = "dispatch"
    /\ idx' = idx + 1
    /\ UNCHANGED <<entry, actions, data, written, finalscore, scored>>

\* the state after a handler of the main loop has returned or raised
Apply(name, r) ==
    /\ handler' = name
    /\ params' = r.params
    /\ setup' = r.setup
    /\ cs' = r.cs
    /\ results' = results \o r.results
    /\ calls' = calls \o r.calls
    /\ readkeys' = readkeys \cup {[by |-> name, key |-> k] : k \in r.setup.readkeys}
    /\ err' = r.err
    /\ pc' = IF r.err = NoErr THEN "dispatch" ELSE "failed"
    /\ idx' = IF r.err = NoErr THEN idx + 1 ELSE idx
    /\ UNCHANGED <<entry, actions, data, written, finalscore, scored>>

AtAction(name) == pc = "dispatch" /\ idx <= Len(actions) /\ actions[idx] = name

Acqdatetime ==
    /\ AtAction("acqdatetime")
    /\ \E action \in AcqActions, env \in AcqEnvs :
          Apply("acqdatetime", acqdatetime_series(data, action, env))

HeaderSeries ==
    /\ AtAction("header_series")
    /\ \E action \in HeaderActions, env \in HeaderEnvs :
          Apply("header_series", header_series(data, action, env))

QcSeries ==
    /\ AtAction("qc_series")
    /\ \E action \in QcActions, env \in QcEnvs :
          Apply("qc_series", qc_series(data, action, env))

\* an action name none of the branches of the loop matches
SkipAction ==
    /\ pc = "dispatch" /\ idx <= Len(actions)
    /\ actions[idx] \notin {"acqdatetime", "header_series", "qc_series"}
    /\ idx' = idx + 1
    /\ UNCHANGED <<entry, actions, data, pc, handler, params, setup, cs, results,
                   written, err, calls, readkeys, finalscore, scored>>

\* line 287: results.write() after the loop
Write ==
    /\ pc = "dispatch" /\ idx > Len(actions)
    /\ written' = Append(written, results)
    /\ calls' = Append(calls, Call("main", "write", NoMatrix, NoMatrix))
    /\ pc' = "done"
    /\ UNCHANGED <<entry, actions, data, idx, handler, params, setup, cs, results, err,
                   readkeys, finalscore, scored>>

ListCall ==
    /\ pc = "call"
    /\ LET r == cdmamqc_list(data, params)
       IN  /\ handler' = "cdmamqc_list"
           /\ calls' = calls \o r.calls
           /\ err' = r.err
           /\ finalscore' = r.finalscore
           /\ scored' = r.scored
           /\ pc' = "returned"
    /\ UNCHANGED <<entry, actions, data, idx, params, setup, cs, results, written,
                   readkeys>>

Next == Acqdatetime \/ HeaderSeries \/ QcSeries \/ SkipAction \/ Write \/ ListCall

Spec == Init /\ [][Next]_vars

----------------------------------------------------------------------------
(* Reading the logs *)

Scorers == {"CDMamSingle", "CDCOMSingle"}

\* positions in calls of the calls of fn made by the function by
CallsOf(by, fns) == {i \in 1..Len(calls) : calls[i].by = by /\ calls[i].fn \in fns}

ResultsBy(by) == SelectSeq(results, LAMBDA r : r.by = by)

FloatsBy(by) == SelectSeq(results, LAMBDA r : r.by = by /\ r.kind = "float")

----------------------------------------------------------------------------
(* C1 *)

\* C1: a failed run writes nothing.  In every state of a run of the script,
\* results.write() has run at most once; if an action has raised, it has not
\* run at all, whatever earlier actions had added to results; and where it has
\* run, every configured action has completed without error, the loop is over,
\* and what was written is what the actions added.
C1_NoResultsForFailedRun ==
    entry = "main" =>
        /\ Len(written) <= 1
        /\ Cardinality(CallsOf("main", {"write"})) = Len(written)
        /\ (err # NoErr => written = << >> /\ pc = "failed")
        /\ (pc = "failed" => err # NoErr /\ written = << >>)
        /\ (written # << >> =>
               /\ pc = "done"
               /\ err = NoErr
               /\ idx = Len(actions) + 1
               /\ written[1] = results)
        /\ (pc = "done" => Len(written) = 1)

\* an action raised after an earlier one had added values: nothing is written
C1_Witness ==
    /\ entry = "main"
    /\ pc = "failed"
    /\ results # << >>
    /\ written = << >>

----------------------------------------------------------------------------
(* C2 *)

\* C2: in the non-header mode a params mapping without phantomversion or
\* without modeCDCOM makes qc_series fail with the ValueError of that case
\* ('missing phantomversion parameter!' / 'missing cdcommode parameter!'),
\* before prepareInput is called or a CDMamStruct is built.
C2_MissingParamIsValueError ==
    (handler = "qc_series" /\ ~({"phantomversion", "modeCDCOM"} \subseteq DOMAIN params)) =>
        /\ err.type = "ValueError"
        /\ err.msg = (IF "phantomversion" \notin DOMAIN params
                      THEN "missing phantomversion parameter!"
                      ELSE "missing cdcommode parameter!")
        /\ CallsOf("qc_series", {"prepareInput", "CDMamStruct"}) = {}
        /\ ~setup.built

----------------------------------------------------------------------------
(* C3 *)

\* C3: the header-only mode needs no scoring parameter.  Whatever params
\* header_series is given, it looks up none of its keys, raises no
\* configuration error (no KeyError, no ValueError), sets phantomversion to
\* '3.2', modeCDCOM to False and parsCDCOM to [], and calls neither
\* CDMamSingle nor CDCOMSingle nor thresholdThickness.
C3_HeaderOnlyNeedsNoParams ==
    /\ \A rk \in readkeys : rk.by # "header_series"
    /\ CallsOf("header_series", Scorers \cup {"thresholdThickness"}) = {}
    /\ handler = "header_series" =>
          /\ err.type \notin {"KeyError", "ValueError", "AttributeError", "TypeError"}
          /\ setup.readkeys = {}
          /\ setup.phantomversion = PyStr(<<"3", ".", "2">>)
          /\ setup.modeCDCOM = FALSE
          /\ setup.parsCDCOM = << >>

\* header_series has completed with a params mapping that has none of the keys
C3_Witness ==
    /\ handler = "header_series"
    /\ DOMAIN params = {}
    /\ err = NoErr
    /\ Len(ResultsBy("header_series")) >= 2

----------------------------------------------------------------------------
(* C9 *)

\* the configured values whose text, lower-cased, is 'true': the boolean True
\* and the strings spelling t-r-u-e in any case
C9_ModeIsTrue(v) ==
    \/ v.t = "bool" /\ v.b
    \/ /\ v.t = "str"
       /\ Len(v.s) = 4
       /\ v.s[1] \in {"t", "T"} /\ v.s[2] \in {"r", "R"}
       /\ v.s[3] \in {"u", "U"} /\ v.s[4] \in {"e", "E"}

----------------------------------------------------------------------------
(* C10 *)

\* the text of a diameter in the result names: two decimals
C10_DiamText(di) ==
    CASE di = 6 -> <<"0",".","0","6">>
      [] di = 8 -> <<"0",".","0","8">>
      [] di = 10 -> <<"0",".","1","0">>
      [] di = 13 -> <<"0",".","1","3">>
      [] di = 100 -> <<"1",".","0","0">>
      [] di = 125 -> <<"1",".","2","5">>
      [] di = 160 -> <<"1",".","6","0">>
      [] di = 200 -> <<"2",".","0","0">>

C10_Suffixes ==
    {t \o e \o p :
        t \in {<<"_","R","H">>, <<"_","M","O">>, <<"_","A","L">>, <<"_","A","G">>,
               <<"_","X","X">>},
        e \in {<< >>, <<"s","u">>, <<"h","i">>, <<"l","o">>},
        p \in {<< >>, <<"p","r","o","c">>, <<"p","r","e","s">>}}

C10_LimitName(di, sfx) == <<"l","i","m","i","t","_","u","m","_">> \o C10_DiamText(di) \o sfx

\* C10: the result surface of qc_series.  A qc_series that has raised has
\* added nothing.  One that has completed has added, after thresholdThickness
\* returned, one float per pair of the diameter and threshold lists, named
\* limit_um_<diameter><suffix> and holding that diameter's threshold, then one
\* float iqf<suffix> holding the image quality factor; when the two lists have
\* the same length every diameter has exactly one float; all names carry the
\* same suffix, which is a filter tag (_RH, _MO, _AL, _AG, _XX), then at most
\* one of su/hi/lo, then at most one of proc/pres; the values are those
\* thresholdThickness computed, whatever the suffix.
C10_ResultSurface ==
    /\ (handler = "qc_series" /\ err # NoErr) => ResultsBy("qc_series") = << >>
    /\ (handler = "qc_series" /\ err = NoErr) =>
          LET F == FloatsBy("qc_series")
              n == Len(F) - 1
              iqfname == F[Len(F)].name
              sfx == SubSeq(iqfname, 4, Len(iqfname))
              T == CallsOf("qc_series", {"thresholdThickness"})
              A == CallsOf("qc_series", {"addFloat", "addObject"})
          IN  /\ Len(F) >= 1
              /\ n = Min(Len(cs.diam_mm), Len(cs.limit_um))
              /\ iqfname = <<"i","q","f">> \o sfx
              /\ F[Len(F)].val = cs.iqf
              /\ sfx \in C10_Suffixes
              /\ \A i \in 1..n :
                    /\ F[i].name = C10_LimitName(cs.diam_mm[i], sfx)
                    /\ F[i].val = cs.limit_um[i]
              /\ Len(cs.diam_mm) = Len(cs.limit_um) =>
                    \A i \in 1..Len(cs.diam_mm) :
                       Cardinality({j \in 1..Len(F) :
                           F[j].name = C10_LimitName(cs.diam_mm[i], sfx)}) = 1
              /\ Cardinality(T) = 1
              /\ Cardinality(CallsOf("qc_series", {"addFloat"})) = Len(F)
              /\ \A j \in T : \A i \in A : j < i

\* qc_series has completed on two diameters with two thresholds, for a series
\* whose energy presentation gives the suffix an energy and a processing part
C10_Witness ==
    /\ handler = "qc_series"
    /\ err = NoErr
    /\ Len(cs.diam_mm) = 2
    /\ Len(cs.limit_um) = 2
    /\ Contains(<<"H","I","G","H">>, cs.energypresentation)
    /\ Len(FloatsBy("qc_series")) = 3

----------------------------------------------------------------------------
(* C4 - C8: cdmamqc_list *)

\* cdmamqc_list has returned to its caller, normally or with an exception
ListReturned == entry = "list" /\ pc = "returned"

\* params has every key, so that no image fails on its parameters
CompleteParams == DOMAIN params = ParamKeys

\* the image at position i is one for which the setup or the selected scorer fails
ImageFails(i) ==
    data.filelist[i].failAt \in
        {"prepareInput", IF C9_ModeIsTrue(params["modeCDCOM"]) THEN "CDCOMSingle"
                         ELSE "CDMamSingle"}

FailingImages == {i \in 1..Len(data.filelist) : ImageFails(i)}

FirstFailing == CHOOSE i \in FailingImages : \A j \in FailingImages : i <= j

RECURSIVE SumCell(_, _, _, _)
SumCell(files, y, x, n) ==
    IF n = 0 THEN 0 ELSE SumCell(files, y, x, n - 1) + files[n].score[y][x]

\* C4: a failure of the setup or of the scorer for an image, at any position
\* of the list, is the failure cdmamqc_list ends with; the images before it
\* and no others have been scored, and thresholdThickness is not called.
C4_ImageFailureAbortsAggregation ==
    (ListReturned /\ CompleteParams /\ FailingImages # {}) =>
        /\ err = LibError(data.filelist[FirstFailing].failAt)
        /\ scored = FirstFailing - 1
        /\ Cardinality(CallsOf("cdmamqc_list", Scorers)) =
              (IF data.filelist[FirstFailing].failAt = "prepareInput"
               THEN FirstFailing - 1 ELSE FirstFailing)
        /\ CallsOf("cdmamqc_list", {"thresholdThickness"}) = {}

\* C5: for a non-empty list of n images none of which fails, cdmamqc_list ends
\* without error with finalscore[y][x] = (sum of the n scores at [y][x]) / n in
\* every cell of the ground-truth shape, and has called thresholdThickness
\* exactly once, last, with that matrix.
C5_AverageOverAllImages ==
    (ListReturned /\ CompleteParams /\ data.filelist # << >> /\ FailingImages = {}) =>
        /\ err = NoErr
        /\ scored = Len(data.filelist)
        /\ DOMAIN finalscore = 1..Rows
        /\ \A y \in 1..Rows :
              /\ DOMAIN finalscore[y] = 1..Cols
              /\ \A x \in 1..Cols :
                    finalscore[y][x] =
                        Quot(SumCell(data.filelist, y, x, Len(data.filelist)),
                             Len(data.filelist))
        /\ CallsOf("cdmamqc_list", {"thresholdThickness"}) = {Len(calls)}
        /\ calls[Len(calls)].arg = finalscore

Permutations(n) == {f \in [1..n -> 1..n] : \A i, j \in 1..n : i # j => f[i] # f[j]}

Permuted(d, f) == [d EXCEPT !.filelist = [i \in 1..Len(d.filelist) |-> d.filelist[f[i]]]]

\* C6: for a non-empty list none of whose images fails, cdmamqc_list hands an
\* averaged matrix to thresholdThickness, and hands the same matrix for every
\* permutation of the list.
C6_OrderIndependent ==
    (ListReturned /\ CompleteParams /\ data.filelist # << >> /\ FailingImages = {}) =>
        /\ CallsOf("cdmamqc_list", {"thresholdThickness"}) # {}
        /\ \A f \in Permutations(Len(data.filelist)) :
              LET r == cdmamqc_list(Permuted(data, f), params)
              IN  /\ r.err = NoErr
                  /\ r.calls # << >>
                  /\ r.calls[Len(r.calls)].fn = "thresholdThickness"
                  /\ r.calls[Len(r.calls)].arg = calls[Len(calls)].arg

\* C7: for a non-empty list of images with scores in [0,1], none of which
\* fails, the matrix cdmamqc_list passes to thresholdThickness has every cell
\* in [0,1], the sum of as many scores as there are images over their number.
C7_AverageInUnitRange ==
    (ListReturned /\ CompleteParams /\ data.filelist # << >> /\ FailingImages = {}) =>
        /\ CallsOf("cdmamqc_list", {"thresholdThickness"}) # {}
        /\ scored = Len(data.filelist)
        /\ \A j \in CallsOf("cdmamqc_list", {"thresholdThickness"}) :
              \A y \in 1..Rows : \A x \in 1..Cols :
                 /\ calls[j].arg[y][x].den = scored
                 /\ 0 <= calls[j].arg[y][x].num
                 /\ calls[j].arg[y][x].num <= calls[j].arg[y][x].den

\* C8: called with an empty list, cdmamqc_list fails with InsufficientDataError,
\* not with a division by zero, calls no thresholdThickness and builds no matrix.
C8_EmptyListIsInsufficientData ==
    (ListReturned /\ data.filelist = << >>) =>
        /\ err.type = "InsufficientDataError"
        /\ CallsOf("cdmamqc_list", {"thresholdThickness"}) = {}
        /\ finalscore = NoMatrix

====
